---- MODULE Spec2Model ----
(***************************************************************************)
(* ambient_weather_mqtt: an HTTP endpoint that receives one weather        *)
(* station report as query parameters and republishes every measurement   *)
(* to an MQTT broker (src/src/main.rs).                                    *)
(*                                                                         *)
(* Raw parameter values are sequences of one-character strings, so that    *)
(* str::parse::<i32>() and str::parse::<f32/f64>() are modelled by the     *)
(* grammar they accept.  Parsed decimals are fixed-point integers counted  *)
(* in thousandths; the raw values of the model carry at most three         *)
(* fractional digits and no exponent, "inf" or "nan".                      *)
(***************************************************************************)
EXTENDS Integers, Sequences, FiniteSets, TLC

VARIABLES mainPc, cfgIdx, mutex, params, pc, step, status, log, errors, diag, heat

vars == <<mainPc, cfgIdx, mutex, params, pc, step, status, log, errors, diag, heat>>

----------------------------------------------------------------------------
(* Characters and raw strings                                              *)

Digit == {"0", "1", "2", "3", "4", "5", "6", "7", "8", "9"}

DigitVal(c) ==
    CASE c = "0" -> 0 [] c = "1" -> 1 [] c = "2" -> 2 [] c = "3" -> 3
      [] c = "4" -> 4 [] c = "5" -> 5 [] c = "6" -> 6 [] c = "7" -> 7
      [] c = "8" -> 8 [] c = "9" -> 9

Abs(x) == IF x < 0 THEN -x ELSE x

Max(a, b) == IF a >= b THEN a ELSE b

Min(a, b) == IF a <= b THEN a ELSE b

RECURSIVE Pow10(_)
Pow10(n) == IF n = 0 THEN 1 ELSE 10 * Pow10(n - 1)

(* floor(a * b / d) for a, b >= 0 without leaving 32 bits: the larger     *)
(* factor is split at d.                                                   *)
MulDiv(a, b, d) ==
    LET big == Max(a, b)
        small == Min(a, b)
    IN  (big \div d) * small + ((big % d) * small) \div d

----------------------------------------------------------------------------
(* str::parse::<i32>(): an optional sign, then one or more digits; the     *)
(* value is accumulated with checked arithmetic and overflow is an error.  *)

I32Max == 2147483647

I32Min == -I32Max - 1

RECURSIVE AccI32(_, _, _)
AccI32(ds, neg, acc) ==
    IF ds = <<>> THEN [ok |-> TRUE, val |-> acc]
    ELSE LET d == DigitVal(Head(ds)) IN
         IF neg
         THEN IF acc < (I32Min + d) \div 10 + (IF (I32Min + d) % 10 = 0 THEN 0 ELSE 1)
              THEN [ok |-> FALSE, val |-> 0]
              ELSE AccI32(Tail(ds), neg, acc * 10 - d)
         ELSE IF acc > (I32Max - d) \div 10
              THEN [ok |-> FALSE, val |-> 0]
              ELSE AccI32(Tail(ds), neg, acc * 10 + d)

ParseI32(s) ==
    LET signed == Len(s) > 0 /\ s[1] \in {"+", "-"}
        neg == Len(s) > 0 /\ s[1] = "-"
        ds == IF signed THEN Tail(s) ELSE s
    IN  IF ds = <<>> \/ \E i \in 1..Len(ds) : ds[i] \notin Digit
        THEN [ok |-> FALSE, val |-> 0]
        ELSE AccI32(ds, neg, 0)

(* str::parse::<f32>() and ::<f64>() accept the same strings:              *)
(*   Sign? ( Digit+ | Digit+ '.' Digit* | Digit* '.' Digit+ )              *)
(* val is the magnitude in thousandths, neg the sign.                      *)

RECURSIVE DigitsVal(_, _)
DigitsVal(ds, acc) ==
    IF ds = <<>> THEN acc ELSE DigitsVal(Tail(ds), acc * 10 + DigitVal(Head(ds)))

ParseFloat(s) ==
    LET signed == Len(s) > 0 /\ s[1] \in {"+", "-"}
        neg == Len(s) > 0 /\ s[1] = "-"
        body == IF signed THEN Tail(s) ELSE s
        dots == {i \in 1..Len(body) : body[i] = "."}
        dot == IF dots = {} THEN Len(body) + 1 ELSE CHOOSE i \in dots : TRUE
        int == SubSeq(body, 1, dot - 1)
        frac == SubSeq(body, dot + 1, Len(body))
        frac3 == SubSeq(frac \o <<"0", "0", "0">>, 1, 3)
    IN  IF \/ Cardinality(dots) > 1
           \/ \E i \in 1..Len(body) : body[i] \notin Digit \cup {"."}
           \/ Len(int) + Len(frac) = 0
        THEN [ok |-> FALSE, neg |-> FALSE, val |-> 0]
        ELSE [ok |-> TRUE, neg |-> neg,
              val |-> DigitsVal(int, 0) * 1000 + DigitsVal(frac3, 0)]

(* Signed value in thousandths of a parsed decimal.                        *)
Milli(p) == IF p.neg THEN -p.val ELSE p.val

----------------------------------------------------------------------------
(* format!("{:.p$}", x): the magnitude rounded to p fractional digits      *)
(* (ties to even), the sign kept.  mag is counted in 10^-scale.            *)

RoundDiv(a, d) ==
    LET q == a \div d
        r == a % d
    IN  IF 2 * r > d \/ (2 * r = d /\ q % 2 = 1) THEN q + 1 ELSE q

FormatFixed(neg, mag, scale, precision) ==
    [kind |-> "decimal", digits |-> precision, neg |-> neg,
     mag |-> RoundDiv(mag, Pow10(scale - precision))]

(* i32::to_string(): the canonical decimal string, no fractional digits.   *)
FormatInt(n) == [kind |-> "integer", digits |-> 0, neg |-> n < 0, mag |-> Abs(n)]

----------------------------------------------------------------------------
(* Exact arithmetic for the Rothfusz polynomial: non-negative integers as  *)
(* eight little-endian limbs of four decimal digits.                       *)

BigFromInt(n) ==
    <<n % 10000, (n \div 10000) % 10000, n \div 100000000, 0, 0, 0, 0, 0>>

RECURSIVE BigMulFrom(_, _, _, _)
BigMulFrom(x, k, i, carry) ==
    IF i > Len(x) THEN <<>>
    ELSE LET v == x[i] * k + carry
         IN  <<v % 10000>> \o BigMulFrom(x, k, i + 1, v \div 10000)

(* x * k for 0 <= k <= 200000, so that a limb product stays in 32 bits.    *)
BigMul(x, k) == BigMulFrom(x, k, 1, 0)

RECURSIVE BigAddFrom(_, _, _, _)
BigAddFrom(x, y, i, carry) ==
    IF i > Len(x) THEN <<>>
    ELSE LET v == x[i] + y[i] + carry
         IN  <<v % 10000>> \o BigAddFrom(x, y, i + 1, v \div 10000)

BigAdd(x, y) == BigAddFrom(x, y, 1, 0)

RECURSIVE BigSubFrom(_, _, _, _)
BigSubFrom(x, y, i, borrow) ==
    IF i > Len(x) THEN <<>>
    ELSE LET v == x[i] - y[i] - borrow
         IN  <<v % 10000>> \o BigSubFrom(x, y, i + 1, IF v < 0 THEN 1 ELSE 0)

BigLess(x, y) ==
    \E i \in 1..Len(x) : x[i] < y[i] /\ \A j \in (i + 1)..Len(x) : x[j] = y[j]

(* A signed number is [neg, mag]; mag is a limb sequence.                  *)
SignedAdd(a, b) ==
    IF a.neg = b.neg THEN [neg |-> a.neg, mag |-> BigAdd(a.mag, b.mag)]
    ELSE IF BigLess(a.mag, b.mag)
         THEN [neg |-> b.neg, mag |-> BigSubFrom(b.mag, a.mag, 1, 0)]
         ELSE [neg |-> a.neg, mag |-> BigSubFrom(a.mag, b.mag, 1, 0)]

RECURSIVE BigPow(_, _, _)
BigPow(x, k, n) == IF n = 0 THEN x ELSE BigPow(BigMul(x, k), k, n - 1)

(* c * temp^a * rh^b, c in 10^-8, temp and rh signed in thousandths, the   *)
(* result in 10^-20.                                                       *)
Term(neg, c, temp, a, rh, b) ==
    [neg |-> (neg /= (temp < 0 /\ a % 2 = 1)) /= (rh < 0 /\ b % 2 = 1),
     mag |-> BigPow(BigPow(BigPow(BigFromInt(c), Abs(temp), a), Abs(rh), b),
                    1000, 4 - a - b)]

(* floor(sqrt(x)) by bisection, lo * lo <= x < hi * hi.                    *)
RECURSIVE ISqrt(_, _, _)
ISqrt(x, lo, hi) ==
    IF hi - lo <= 1 THEN lo
    ELSE LET mid == (lo + hi) \div 2
         IN  IF mid * mid <= x THEN ISqrt(x, mid, hi) ELSE ISqrt(x, lo, mid)

----------------------------------------------------------------------------
(* The heat index of handle_weather_update, lines 417-444.  temp_f and rh  *)
(* are parsed decimals ([neg, val], val in thousandths); the result names  *)
(* the branch taken and carries the value, sign and magnitude in 10^-4.    *)
(* The polynomial is evaluated exactly and floored to 10^-4; the code      *)
(* evaluates it in f64.                                                    *)

(* Twice the Steadman estimate, in 10^-6: 0.5 * steadman2 is the estimate. *)
steadman(t, r) == 1000 * t + 61000000 + (t - 68000) * 1200 + r * 94

(* The constant -42.379 enters as -0.42379 * 100.                          *)

rothfusz(t, r) ==
    LET sum == SignedAdd(Term(TRUE, 42379000, 100000, 1, 0, 0),
               SignedAdd(Term(FALSE, 204901523, t, 1, r, 0),
               SignedAdd(Term(FALSE, 1014333127, t, 0, r, 1),
               SignedAdd(Term(TRUE, 22475541, t, 1, r, 1),
               SignedAdd(Term(TRUE, 683783, t, 2, r, 0),
               SignedAdd(Term(TRUE, 5481717, t, 0, r, 2),
               SignedAdd(Term(FALSE, 122874, t, 2, r, 1),
               SignedAdd(Term(FALSE, 85282, t, 1, r, 2),
                         Term(TRUE, 199, t, 2, r, 2)))))))))
        units == sum.mag[5] + 10000 * sum.mag[6] + 100000000 * sum.mag[7]
    IN  IF sum.neg THEN -units ELSE units

low_humidity_adjustment(t, r) ==
    MulDiv(13000 - r,
           ISqrt(MulDiv(17000 - Abs(t - 95000), 100000000, 17000), 0, 10001),
           4000)

high_humidity_adjustment(t, r) == MulDiv(r - 85000, 87000 - t, 5000)

(* Variant: 80 degrees itself passes through (<= for <).                  *)
heat_index_f_le(temp_f, rh) ==
    LET t == Milli(temp_f)
        r == Milli(rh)
        signed(branch, band, v) ==
            [branch |-> branch, band |-> band, neg |-> v < 0, mag |-> Abs(v)]
    IN  IF t <= 80000
        THEN [branch |-> "temp_f", band |-> "none",
              neg |-> temp_f.neg, mag |-> 10 * temp_f.val]
        ELSE IF 2000 * t + steadman(t, r) < 320000000
        THEN signed("steadman", "none", steadman(t, r) \div 200)
        ELSE IF r < 13000 /\ t > 80000 /\ t < 112000
        THEN signed("rothfusz", "low",
                    rothfusz(t, r) - low_humidity_adjustment(t, r))
        ELSE IF r > 85000 /\ t > 80000 /\ t < 87000
        THEN signed("rothfusz", "high",
                    rothfusz(t, r) + high_humidity_adjustment(t, r))
        ELSE signed("rothfusz", "none", rothfusz(t, r))

heat_index_f(temp_f, rh) ==
    LET t == Milli(temp_f)
        r == Milli(rh)
        signed(branch, band, v) ==
            [branch |-> branch, band |-> band, neg |-> v < 0, mag |-> Abs(v)]
    IN  IF t < 80000
        THEN [branch |-> "temp_f", band |-> "none",
              neg |-> temp_f.neg, mag |-> 10 * temp_f.val]
        ELSE IF 2000 * t + steadman(t, r) < 320000000
        THEN signed("steadman", "none", steadman(t, r) \div 200)
        ELSE IF r < 13000 /\ t > 80000 /\ t < 112000
        THEN signed("rothfusz", "low",
                    rothfusz(t, r) - low_humidity_adjustment(t, r))
        ELSE IF r > 85000 /\ t > 80000 /\ t < 87000
        THEN signed("rothfusz", "high",
                    rothfusz(t, r) + high_humidity_adjustment(t, r))
        ELSE signed("rothfusz", "none", rothfusz(t, r))

----------------------------------------------------------------------------
(* Topics are paths; Path("x", "state") is                                 *)
(* "homeassistant/sensor/ambientWeather/x/state".                          *)

Path(topic, leaf) == <<"homeassistant", "sensor", "ambientWeather", topic, leaf>>

(* The discovery descriptors of main, in the order main publishes them:    *)
(* the topic argument and the state_topic literal of each.                 *)
SensorConfigs == <<
    [topic |-> "temperature",        state_topic |-> Path("temperature", "state")],
    [topic |-> "feelsLike",          state_topic |-> Path("feelsLike", "state")],
    [topic |-> "humidity",           state_topic |-> Path("humidity", "state")],
    [topic |-> "dewPoint",           state_topic |-> Path("dewPoint", "state")],
    [topic |-> "windChill",          state_topic |-> Path("windChill", "state")],
    [topic |-> "windDir",            state_topic |-> Path("windDir", "state")],
    [topic |-> "windSpeed",          state_topic |-> Path("windSpeed", "state")],
    [topic |-> "windGust",           state_topic |-> Path("windGust", "state")],
    [topic |-> "rainHourly",         state_topic |-> Path("rainHourly", "state")],
    [topic |-> "rainDaily",          state_topic |-> Path("rainDaily", "state")],
    [topic |-> "rainWeekly",         state_topic |-> Path("rainWeekly", "state")],
    [topic |-> "rainMonthly",        state_topic |-> Path("rainMonthly", "state")],
    [topic |-> "rainLifetime",       state_topic |-> Path("rainLifetime", "state")],
    [topic |-> "solarRadiation",     state_topic |-> Path("solarRadiation", "state")],
    [topic |-> "UV",                 state_topic |-> Path("UV", "state")],
    [topic |-> "kitchenTemperature", state_topic |-> Path("kitchenTemperature", "state")],
    [topic |-> "kitchenHumidity",    state_topic |-> Path("kitchenHumidity", "state")],
    [topic |-> "pressure",           state_topic |-> Path("pressure", "state")],
    [topic |-> "relativePressure",   state_topic |-> Path("relativePressure", "state")] >>

(* publish_sensor_config: the descriptor, retained, on the config topic.   *)
publish_sensor_config(topic, config) ==
    [topic |-> Path(topic, "config"),
     payload |-> [kind |-> "config", state_topic |-> config.state_topic],
     retained |-> TRUE]

(* The publish_f32 / publish_i32 calls of handle_weather_update, in order. *)
FieldCalls == <<
    [fn |-> "f32", key |-> "tempf",          topic |-> "temperature",        precision |-> 1],
    [fn |-> "i32", key |-> "humidity",       topic |-> "humidity",           precision |-> 0],
    [fn |-> "f32", key |-> "dewptf",         topic |-> "dewPoint",           precision |-> 1],
    [fn |-> "f32", key |-> "windchillf",     topic |-> "windChill",          precision |-> 1],
    [fn |-> "i32", key |-> "winddir",        topic |-> "windDir",            precision |-> 0],
    [fn |-> "f32", key |-> "windspeedmph",   topic |-> "windSpeed",          precision |-> 2],
    [fn |-> "f32", key |-> "windgustmph",    topic |-> "windGust",           precision |-> 2],
    [fn |-> "f32", key |-> "rainin",         topic |-> "rainHourly",         precision |-> 3],
    [fn |-> "f32", key |-> "dailyrainin",    topic |-> "rainDaily",          precision |-> 3],
    [fn |-> "f32", key |-> "weeklyrainin",   topic |-> "rainWeekly",         precision |-> 3],
    [fn |-> "f32", key |-> "monthlyrainin",  topic |-> "rainMonthly",        precision |-> 3],
    [fn |-> "f32", key |-> "totalrainin",    topic |-> "rainLifetime",       precision |-> 3],
    [fn |-> "f32", key |-> "solarradiation", topic |-> "solarRadiation",     precision |-> 1],
    [fn |-> "i32", key |-> "UV",             topic |-> "UV",                 precision |-> 0],
    [fn |-> "f32", key |-> "indoortempf",    topic |-> "kitchenTemperature", precision |-> 1],
    [fn |-> "i32", key |-> "indoorhumidity", topic |-> "kitchenHumidity",    precision |-> 0] >>

(* What one call leaves behind: the messages handed to client.publish and  *)
(* the error! lines written.                                               *)
(* Variant: state messages are retained.                                  *)
PublishedRetained(topic, payload) ==
    [msgs |-> <<[topic |-> topic, payload |-> payload, retained |-> TRUE]>>,
     errs |-> <<>>]

Published(topic, payload) ==
    [msgs |-> <<[topic |-> topic, payload |-> payload, retained |-> FALSE]>>,
     errs |-> <<>>]

Failed(key, what) == [msgs |-> <<>>, errs |-> <<[key |-> key, what |-> what]>>]

Nothing == [msgs |-> <<>>, errs |-> <<>>]

publish_f32(p, key, topic, precision) ==
    IF key \in DOMAIN p
    THEN LET parsed == ParseFloat(p[key])
         IN  IF parsed.ok
             THEN Published(Path(topic, "state"),
                            FormatFixed(parsed.neg, parsed.val, 3, precision))
             ELSE Failed(key, "unparseable")
    ELSE Failed(key, "missing")

publish_i32(p, key, topic) ==
    IF key \in DOMAIN p
    THEN LET parsed == ParseI32(p[key])
         IN  IF parsed.ok
             THEN Published(Path(topic, "state"), FormatInt(parsed.val))
             ELSE Failed(key, "unparseable")
    ELSE Failed(key, "missing")

(* The two inline pressure blocks: inches of mercury times 33.86, one      *)
(* fractional digit.  The product counts in 10^-5.                         *)
publish_pressure(p, key, state_topic) ==
    IF key \in DOMAIN p
    THEN LET inhg == ParseFloat(p[key])
         IN  IF inhg.ok
             THEN Published(state_topic, FormatFixed(inhg.neg, inhg.val * 3386, 5, 1))
             ELSE Failed(key, "unparseable")
    ELSE Failed(key, "missing")

(* Variant: the humidity of the heat index must parse as an integer.      *)
publish_heat_index_i32(p) ==
    IF "tempf" \in DOMAIN p /\ ParseFloat(p["tempf"]).ok
    THEN IF "humidity" \in DOMAIN p /\ ParseI32(p["humidity"]).ok
         THEN LET h == heat_index_f(ParseFloat(p["tempf"]), ParseFloat(p["humidity"]))
              IN  Published(Path("feelsLike", "state"), FormatFixed(h.neg, h.mag, 4, 1))
         ELSE Nothing
    ELSE Nothing

(* The heat-index block: both inputs are parsed as f64; nothing is logged  *)
(* when either is missing or does not parse.                               *)
publish_heat_index(p) ==
    IF "tempf" \in DOMAIN p /\ ParseFloat(p["tempf"]).ok
    THEN IF "humidity" \in DOMAIN p /\ ParseFloat(p["humidity"]).ok
         THEN LET h == heat_index_f(ParseFloat(p["tempf"]), ParseFloat(p["humidity"]))
              IN  Published(Path("feelsLike", "state"), FormatFixed(h.neg, h.mag, 4, 1))
         ELSE Nothing
    ELSE Nothing

(* The wind-chill block: the value is only written to the debug log,       *)
(* beside the reported one.  The entry keeps the inputs of the formula     *)
(* (35.74 + 0.6215 T - 35.75 V^0.16 + 0.4275 T V^0.16), not its value.     *)
wind_chill_debug(p) ==
    IF "tempf" \in DOMAIN p /\ ParseFloat(p["tempf"]).ok
    THEN IF "windspeedmph" \in DOMAIN p /\ ParseFloat(p["windspeedmph"]).ok
         THEN IF "windchillf" \in DOMAIN p
              THEN IF /\ Milli(ParseFloat(p["tempf"])) <= 50000
                      /\ Milli(ParseFloat(p["windspeedmph"])) > 3000
                   THEN <<[temp_f |-> Milli(ParseFloat(p["tempf"])),
                           wind_mph |-> Milli(ParseFloat(p["windspeedmph"])),
                           reported_wind_chill |-> p["windchillf"]]>>
                   ELSE <<>>
              ELSE <<>>
         ELSE <<>>
    ELSE <<>>

(* The credential test at the head of handle_weather_update.               *)
Local == <<"l", "o", "c", "a", "l">>

Key == <<"k", "e", "y">>

Get(p, k) == IF k \in DOMAIN p THEN <<p[k]>> ELSE <<>>

(* Variant: rejects only when both credentials are wrong (&& for ||).      *)
CredentialsRejectedBothWrong(p) ==
    Get(p, "ID") /= <<Local>> /\ Get(p, "PASSWORD") /= <<Key>>

CredentialsRejected(p) == Get(p, "ID") /= <<Local>> \/ Get(p, "PASSWORD") /= <<Key>>

----------------------------------------------------------------------------
(* Requests.  A request is its query parameters: a function from the keys  *)
(* present to their raw values.                                            *)

MaxRequests == 3

MaxDefects == 2

StationReport ==
    [k \in {"ID", "PASSWORD", "tempf", "humidity", "dewptf", "windchillf", "winddir",
            "windspeedmph", "windgustmph", "rainin", "dailyrainin", "weeklyrainin",
            "monthlyrainin", "totalrainin", "solarradiation", "UV", "indoortempf",
            "indoorhumidity", "absbaromin", "baromin"} |->
        CASE k = "ID" -> Local
          [] k = "PASSWORD" -> Key
          [] k = "tempf" -> <<"7", "2", ".", "5">>
          [] k = "humidity" -> <<"4", "5">>
          [] k = "dewptf" -> <<"5", "0", ".", "1">>
          [] k = "windchillf" -> <<"7", "2", ".", "5">>
          [] k = "winddir" -> <<"1", "8", "0">>
          [] k = "windspeedmph" -> <<"4", ".", "4", "7">>
          [] k = "windgustmph" -> <<"6", ".", "9">>
          [] k = "rainin" -> <<"0", ".", "0", "0", "0">>
          [] k = "dailyrainin" -> <<"0", ".", "1", "2">>
          [] k = "weeklyrainin" -> <<"1", ".", "0", "0", "4">>
          [] k = "monthlyrainin" -> <<"2", ".", "5">>
          [] k = "totalrainin" -> <<"3", "1", ".", "1", "1", "8">>
          [] k = "solarradiation" -> <<"2", "5", "0", ".", "4">>
          [] k = "UV" -> <<"3">>
          [] k = "indoortempf" -> <<"7", "0", ".", "3">>
          [] k = "indoorhumidity" -> <<"4", "0">>
          [] k = "absbaromin" -> <<"2", "9", ".", "5", "3">>
          [] k = "baromin" -> <<"2", "9", ".", "9", "2">>]

Restrict(p, keys) == [k \in keys |-> p[k]]

(* p with key k absent (opt = <<>>) or set to v (opt = <<v>>).             *)
With(p, k, opt) ==
    IF opt = <<>> THEN Restrict(p, DOMAIN p \ {k})
    ELSE [x \in DOMAIN p \cup {k} |-> IF x = k THEN opt[1] ELSE p[x]]

Junk == <<"a", "b", "c">>

TempAlts == {<<>>, <<Junk>>, <<<<"-", "4", ".", "5">>>>, <<<<"5", "0">>>>, <<<<"5", "0", ".", "1">>>>,
             <<<<"8", "0">>>>, <<<<"8", "5">>>>, <<<<"9", "0", ".", "1">>>>}

HumidityAlts == {<<>>, <<Junk>>, <<<<"4", "5">>>>, <<<<"4", "5", ".", "5">>>>, <<<<"+", "9", "0">>>>,
                 <<<<"1", "0">>>>, <<<<"-">>>>}

WindAlts == {<<>>, <<Junk>>, <<<<"3", ".", "0">>>>, <<<<"3", ".", "0", "0", "1">>>>, <<<<"1", "2">>>>}

ChillAlts == {<<>>, <<Junk>>, <<<<"4", "4", ".", "1">>>>}

CredentialAlts == {<<>>, <<Local>>, <<Key>>, <<<<"L", "o", "c", "a", "l">>>>, <<<<>>>>}

OtherKeys == {"dewptf", "winddir", "windgustmph", "rainin", "dailyrainin", "weeklyrainin",
              "monthlyrainin", "totalrainin", "solarradiation", "UV", "indoortempf",
              "indoorhumidity", "absbaromin", "baromin"}

(* The keys of bad are absent ("missing") or carry a value that is no      *)
(* number ("junk") or a decimal, which is no integer ("decimal").          *)
Defective(p, bad, how) ==
    IF how = "missing" THEN Restrict(p, DOMAIN p \ bad)
    ELSE [k \in DOMAIN p |->
            IF k \notin bad THEN p[k]
            ELSE IF how = "junk" THEN Junk ELSE <<"4", ".", "5">>]

FieldSamples ==
    {With(With(With(With(StationReport, "tempf", t), "humidity", h),
               "windspeedmph", w), "windchillf", c) :
        t \in TempAlts, h \in HumidityAlts, w \in WindAlts, c \in ChillAlts}
    \cup {Defective(StationReport, bad, how) :
            bad \in {b \in SUBSET OtherKeys : Cardinality(b) <= MaxDefects},
            how \in {"missing", "junk", "decimal"}}
    \cup {With(With(StationReport, "ID", i), "PASSWORD", w) :
            i \in CredentialAlts, w \in CredentialAlts}
    \cup {Restrict(StationReport, {"ID", "PASSWORD"})}

ConcurrentSamples ==
    {StationReport,
     With(StationReport, "PASSWORD", <<>>),
     With(With(Restrict(StationReport, {"ID", "PASSWORD", "tempf", "UV", "baromin"}),
               "humidity", <<<<"9", "0", ".", "5">>>>), "tempf", <<<<"8", "5">>>>)}

----------------------------------------------------------------------------
(* State.                                                                  *)
(*   mainPc, cfgIdx  where main is: connecting, publishing the descriptors *)
(*                   (cfgIdx of them done), serving, or exited             *)
(*   mutex           the Mutex<MqttClient>: its holder (0: free) and       *)
(*                   whether a holder panicked (poisoned)                  *)
(*   params          the query parameters of each request                  *)
(*   pc, step        where each request's handler stands                   *)
(*   status          the status each handler returned (0: none yet)        *)
(*   log             every message handed to client.publish, in order      *)
(*   errors          the error! lines, in order                            *)
(*   diag            the wind-chill debug! lines, in order                 *)
(*   heat            an input of the heat index and, once applied, its     *)
(*                   result (used by SpecHeat only)                        *)

Requests == DOMAIN params

NoHeat == [temp_f |-> [ok |-> TRUE, neg |-> FALSE, val |-> 0],
           rh |-> [ok |-> TRUE, neg |-> FALSE, val |-> 0], out |-> <<>>]

InitWith(samples, n) ==
    /\ mainPc = "connect"
    /\ cfgIdx = 0
    /\ mutex = [holder |-> 0, poisoned |-> FALSE]
    /\ params \in [1..n -> samples]
    /\ pc = [r \in 1..n |-> "idle"]
    /\ step = [r \in 1..n |-> 0]
    /\ status = [r \in 1..n |-> 0]
    /\ log = <<>>
    /\ errors = <<>>
    /\ diag = <<>>
    /\ heat = NoHeat

Init == InitWith(ConcurrentSamples, MaxRequests)

InitFields == InitWith(FieldSamples, 1)

----------------------------------------------------------------------------
(* main                                                                    *)

(* Lines 46-64: config.toml is read and the broker connected, or exit(1).  *)
Connect ==
    /\ mainPc = "connect"
    /\ \E ok \in BOOLEAN : mainPc' = IF ok THEN "config" ELSE "exited"
    /\ UNCHANGED <<cfgIdx, mutex, params, pc, step, status, log, errors, diag, heat>>

(* Lines 74-320: the next publish_sensor_config call.                      *)
PublishSensorConfig ==
    /\ mainPc = "config"
    /\ cfgIdx < Len(SensorConfigs)
    /\ cfgIdx' = cfgIdx + 1
    /\ log' = Append(log, [req |-> 0] @@
                     publish_sensor_config(SensorConfigs[cfgIdx + 1].topic,
                                           SensorConfigs[cfgIdx + 1]))
    /\ UNCHANGED <<mainPc, mutex, params, pc, step, status, errors, diag, heat>>

(* Variant: the server listens before the descriptors are out.            *)
ServeEarly ==
    /\ mainPc = "config"
    /\ mainPc' = "serve"
    /\ UNCHANGED <<cfgIdx, mutex, params, pc, step, status, log, errors, diag, heat>>

(* Lines 322-332: the client moves into the mutex and the server listens.  *)
Serve ==
    /\ mainPc = "config"
    /\ cfgIdx = Len(SensorConfigs)
    /\ mainPc' = "serve"
    /\ UNCHANGED <<cfgIdx, mutex, params, pc, step, status, log, errors, diag, heat>>

----------------------------------------------------------------------------
(* handle_weather_update, one action per step of a request r               *)

Stamp(r, s) == [i \in 1..Len(s) |-> [req |-> r] @@ s[i]]

(* Lines 349-353.  Requests are numbered in the order their handlers       *)
(* start.                                                                  *)
CheckCredentials(r) ==
    /\ mainPc = "serve"
    /\ pc[r] = "idle"
    /\ \A q \in 1..(r - 1) : pc[q] /= "idle"
    /\ IF CredentialsRejected(params[r])
       THEN /\ pc' = [pc EXCEPT ![r] = "done"]
            /\ status' = [status EXCEPT ![r] = 400]
       ELSE /\ pc' = [pc EXCEPT ![r] = "lock"]
            /\ UNCHANGED status
    /\ UNCHANGED <<mainPc, cfgIdx, mutex, params, step, log, errors, diag, heat>>

(* Variant: the client is taken without waiting for the mutex.            *)
LockClientNoWait(r) ==
    /\ pc[r] = "lock"
    /\ IF mutex.poisoned
       THEN /\ pc' = [pc EXCEPT ![r] = "done"]
            /\ status' = [status EXCEPT ![r] = 500]
            /\ errors' = errors \o Stamp(r, <<[key |-> "mutex", what |-> "lock"]>>)
            /\ UNCHANGED <<mutex, step>>
       ELSE /\ pc' = [pc EXCEPT ![r] = "fields"]
            /\ step' = [step EXCEPT ![r] = 1]
            /\ mutex' = [mutex EXCEPT !.holder = r]
            /\ UNCHANGED <<status, errors>>
    /\ UNCHANGED <<mainPc, cfgIdx, params, log, diag, heat>>

(* Variant: a poisoned mutex is taken like a healthy one.                  *)
LockClientIgnoresPoison(r) ==
    /\ pc[r] = "lock"
    /\ mutex.holder = 0
    /\ pc' = [pc EXCEPT ![r] = "fields"]
    /\ step' = [step EXCEPT ![r] = 1]
    /\ mutex' = [mutex EXCEPT !.holder = r]
    /\ UNCHANGED <<mainPc, cfgIdx, params, status, log, errors, diag, heat>>

(* Lines 355-358: lock() waits for the mutex; on a poisoned mutex it       *)
(* returns an error, whose guard is dropped with it.                       *)
LockClient(r) ==
    /\ pc[r] = "lock"
    /\ mutex.holder = 0
    /\ IF mutex.poisoned
       THEN /\ pc' = [pc EXCEPT ![r] = "done"]
            /\ status' = [status EXCEPT ![r] = 500]
            /\ errors' = errors \o Stamp(r, <<[key |-> "mutex", what |-> "lock"]>>)
            /\ UNCHANGED <<mutex, step>>
       ELSE /\ pc' = [pc EXCEPT ![r] = "fields"]
            /\ step' = [step EXCEPT ![r] = 1]
            /\ mutex' = [mutex EXCEPT !.holder = r]
            /\ UNCHANGED <<status, errors>>
    /\ UNCHANGED <<mainPc, cfgIdx, params, log, diag, heat>>

(* What the step request r stands at hands to the client and logs.         *)
Outcome(r) ==
    CASE pc[r] = "fields" ->
           LET c == FieldCalls[step[r]]
           IN  IF c.fn = "f32"
               THEN publish_f32(params[r], c.key, c.topic, c.precision)
               ELSE publish_i32(params[r], c.key, c.topic)
      [] pc[r] = "absbaromin" ->
           publish_pressure(params[r], "absbaromin", Path("pressure", "state"))
      [] pc[r] = "baromin" ->
           publish_pressure(params[r], "baromin", Path("relativePressure", "state"))
      [] pc[r] = "heat_index" -> publish_heat_index(params[r])
      [] OTHER -> Nothing

(* Variant: a field that fails ends the request (an early return).        *)
AfterStepStopOnError(r) ==
    IF Outcome(r).errs /= <<>> THEN "return"
    ELSE CASE pc[r] = "fields" ->
                IF step[r] < Len(FieldCalls) THEN "fields" ELSE "absbaromin"
           [] pc[r] = "absbaromin" -> "baromin"
           [] pc[r] = "baromin" -> "heat_index"
           [] pc[r] = "heat_index" -> "wind_chill"

(* Variant: the heat index is published before the two pressures.         *)
AfterStepHeatFirst(r) ==
    CASE pc[r] = "fields" -> IF step[r] < Len(FieldCalls) THEN "fields" ELSE "heat_index"
      [] pc[r] = "heat_index" -> "absbaromin"
      [] pc[r] = "absbaromin" -> "baromin"
      [] pc[r] = "baromin" -> "wind_chill"

AfterStep(r) ==
    CASE pc[r] = "fields" -> IF step[r] < Len(FieldCalls) THEN "fields" ELSE "absbaromin"
      [] pc[r] = "absbaromin" -> "baromin"
      [] pc[r] = "baromin" -> "heat_index"
      [] pc[r] = "heat_index" -> "wind_chill"

Advance(r) ==
    /\ pc' = [pc EXCEPT ![r] = AfterStep(r)]
    /\ step' = [step EXCEPT ![r] = @ + 1]

(* Lines 360-375: the next publish_f32 / publish_i32 call.                 *)
PublishField(r) ==
    /\ pc[r] = "fields"
    /\ log' = log \o Stamp(r, Outcome(r).msgs)
    /\ errors' = errors \o Stamp(r, Outcome(r).errs)
    /\ Advance(r)
    /\ UNCHANGED <<mainPc, cfgIdx, mutex, params, status, diag, heat>>

(* Lines 377-413: the absolute, then the relative pressure.                *)
PublishPressure(r) ==
    /\ pc[r] \in {"absbaromin", "baromin"}
    /\ log' = log \o Stamp(r, Outcome(r).msgs)
    /\ errors' = errors \o Stamp(r, Outcome(r).errs)
    /\ Advance(r)
    /\ UNCHANGED <<mainPc, cfgIdx, mutex, params, status, diag, heat>>

(* Lines 415-453.                                                          *)
PublishHeatIndex(r) ==
    /\ pc[r] = "heat_index"
    /\ log' = log \o Stamp(r, Outcome(r).msgs)
    /\ errors' = errors \o Stamp(r, Outcome(r).errs)
    /\ Advance(r)
    /\ UNCHANGED <<mainPc, cfgIdx, mutex, params, status, diag, heat>>

(* Variant: the computed wind chill is also published.                    *)
ComputeWindChillPublished(r) ==
    /\ pc[r] = "wind_chill"
    /\ diag' = diag \o Stamp(r, wind_chill_debug(params[r]))
    /\ log' = IF wind_chill_debug(params[r]) = <<>> THEN log
              ELSE log \o Stamp(r, Published(Path("windChill", "state"),
                                             [kind |-> "computed"]).msgs)
    /\ pc' = [pc EXCEPT ![r] = "return"]
    /\ step' = [step EXCEPT ![r] = @ + 1]
    /\ UNCHANGED <<mainPc, cfgIdx, mutex, params, status, errors, heat>>

(* Lines 455-468.                                                          *)
ComputeWindChill(r) ==
    /\ pc[r] = "wind_chill"
    /\ diag' = diag \o Stamp(r, wind_chill_debug(params[r]))
    /\ pc' = [pc EXCEPT ![r] = "return"]
    /\ step' = [step EXCEPT ![r] = @ + 1]
    /\ UNCHANGED <<mainPc, cfgIdx, mutex, params, status, log, errors, heat>>

(* Lines 470-471: Ok(StatusCode::OK); the guard is dropped.                *)
Return(r) ==
    /\ pc[r] = "return"
    /\ status' = [status EXCEPT ![r] = 200]
    /\ pc' = [pc EXCEPT ![r] = "done"]
    /\ mutex' = [mutex EXCEPT !.holder = 0]
    /\ UNCHANGED <<mainPc, cfgIdx, params, step, log, errors, diag, heat>>

(* client.publish belongs to the mqtt crate.  If it panics, the handler    *)
(* unwinds: the message was handed over or not, the guard is dropped and   *)
(* the mutex is left poisoned, the one way lock() can fail at line 355.    *)
PublishPanics(r) ==
    /\ pc[r] \in {"fields", "absbaromin", "baromin", "heat_index"}
    /\ Outcome(r).msgs /= <<>>
    /\ \E sent \in BOOLEAN :
          log' = IF sent THEN log \o Stamp(r, Outcome(r).msgs) ELSE log
    /\ pc' = [pc EXCEPT ![r] = "panicked"]
    /\ mutex' = [holder |-> 0, poisoned |-> TRUE]
    /\ UNCHANGED <<mainPc, cfgIdx, params, step, status, errors, diag, heat>>

Next ==
    \/ Connect
    \/ PublishSensorConfig
    \/ Serve
    \/ \E r \in Requests : CheckCredentials(r)
    \/ \E r \in Requests : LockClient(r)
    \/ \E r \in Requests : PublishField(r)
    \/ \E r \in Requests : PublishPressure(r)
    \/ \E r \in Requests : PublishHeatIndex(r)
    \/ \E r \in Requests : ComputeWindChill(r)
    \/ \E r \in Requests : Return(r)
    \/ \E r \in Requests : PublishPanics(r)

Spec == Init /\ [][Next]_vars

SpecFields == InitFields /\ [][Next]_vars

----------------------------------------------------------------------------
(* The heat index as a function: inputs every half degree from MinTemp to  *)
(* MaxTemp and every half percent up to MaxHumidity.                       *)

MinTemp == 70

MaxTemp == 115

MaxHumidity == 100

HeatInputs ==
    {[temp_f |-> [ok |-> TRUE, neg |-> FALSE, val |-> 500 * t],
      rh |-> [ok |-> TRUE, neg |-> FALSE, val |-> 500 * h],
      out |-> <<>>] : t \in (2 * MinTemp)..(2 * MaxTemp), h \in 0..(2 * MaxHumidity)}

InitHeat ==
    /\ mainPc = "connect"
    /\ cfgIdx = 0
    /\ mutex = [holder |-> 0, poisoned |-> FALSE]
    /\ params = <<>>
    /\ pc = <<>>
    /\ step = <<>>
    /\ status = <<>>
    /\ log = <<>>
    /\ errors = <<>>
    /\ diag = <<>>
    /\ heat \in HeatInputs

(* Lines 417-444 applied to the input.                                     *)
ApplyHeatIndex ==
    /\ heat.out = <<>>
    /\ heat' = [heat EXCEPT !.out = <<heat_index_f(heat.temp_f, heat.rh)>>]
    /\ UNCHANGED <<mainPc, cfgIdx, mutex, params, pc, step, status, log, errors, diag>>

NextHeat == ApplyHeatIndex

SpecHeat == InitHeat /\ [][NextHeat]_vars

----------------------------------------------------------------------------
(* Properties                                                              *)

MsgIdx(r) == {i \in DOMAIN log : log[i].req = r}

Count(r, topic) == Cardinality({i \in MsgIdx(r) : log[i].topic = topic})

ErrIdx(r) == {i \in DOMAIN errors : errors[i].req = r}

Present(p, k) == k \in DOMAIN p

Running == {"fields", "absbaromin", "baromin", "heat_index", "wind_chill", "return"}

(* The field table of the specification: source key, topic suffix, kind.   *)
FieldTable == {
    <<"tempf", "temperature", "Decimal">>, <<"humidity", "humidity", "Integer">>,
    <<"dewptf", "dewPoint", "Decimal">>, <<"windchillf", "windChill", "Decimal">>,
    <<"winddir", "windDir", "Integer">>, <<"windspeedmph", "windSpeed", "Decimal">>,
    <<"windgustmph", "windGust", "Decimal">>, <<"rainin", "rainHourly", "Decimal">>,
    <<"dailyrainin", "rainDaily", "Decimal">>, <<"weeklyrainin", "rainWeekly", "Decimal">>,
    <<"monthlyrainin", "rainMonthly", "Decimal">>, <<"totalrainin", "rainLifetime", "Decimal">>,
    <<"solarradiation", "solarRadiation", "Decimal">>, <<"UV", "UV", "Integer">>,
    <<"indoortempf", "kitchenTemperature", "Decimal">>,
    <<"indoorhumidity", "kitchenHumidity", "Integer">>,
    <<"absbaromin", "pressure", "Decimal">>, <<"baromin", "relativePressure", "Decimal">>}

(* The field pipeline accepts the raw value of field f in request p.       *)
Parses(p, f) ==
    /\ Present(p, f[1])
    /\ IF f[3] = "Integer" THEN ParseI32(p[f[1]]).ok ELSE ParseFloat(p[f[1]]).ok

(* The publish order of one request.                                       *)
TopicOrder == <<"temperature", "humidity", "dewPoint", "windChill", "windDir", "windSpeed",
                "windGust", "rainHourly", "rainDaily", "rainWeekly", "rainMonthly",
                "rainLifetime", "solarRadiation", "UV", "kitchenTemperature",
                "kitchenHumidity", "pressure", "relativePressure", "feelsLike">>

RankOf == [s \in {TopicOrder[i] : i \in DOMAIN TopicOrder} |->
              CHOOSE i \in DOMAIN TopicOrder : TopicOrder[i] = s]

Rank(topic) ==
    IF topic[4] \in DOMAIN RankOf /\ topic = Path(topic[4], "state")
    THEN RankOf[topic[4]]
    ELSE 0

CredentialsValid(p) ==
    /\ Present(p, "ID") /\ p["ID"] = Local
    /\ Present(p, "PASSWORD") /\ p["PASSWORD"] = Key

(* C1: a request whose ID or PASSWORD is absent or differs from the        *)
(* configured value is rejected with 400, publishes nothing and never      *)
(* takes the mutex.                                                        *)
C1_InvalidCredentialsRejected ==
    \A r \in Requests :
        ~CredentialsValid(params[r]) =>
            /\ pc[r] \in {"idle", "done"}
            /\ pc[r] = "done" <=> status[r] = 400
            /\ status[r] \in {0, 400}
            /\ MsgIdx(r) = {}
            /\ step[r] = 0
            /\ mutex.holder /= r

W1_Rejected ==
    \E r \in Requests :
        /\ Present(params[r], "ID") /\ params[r]["ID"] = Local
        /\ ~Present(params[r], "PASSWORD")
        /\ pc[r] = "done"
        /\ status[r] = 400

(* C2: a request with valid credentials that got the mutex and returned    *)
(* answers 200 whatever fields failed, and each field of the table whose   *)
(* raw value is present and parses was published exactly once to its own   *)
(* state topic (the others not at all).                                    *)
C2_FieldFailuresIsolated ==
    \A r \in Requests :
        /\ step[r] >= 1 => status[r] \in {0, 200}
        /\ (pc[r] = "done" /\ step[r] >= 1) =>
              /\ status[r] = 200
              /\ \A f \in FieldTable :
                    Count(r, Path(f[2], "state")) = IF Parses(params[r], f) THEN 1 ELSE 0

W2_FailedSiblingsPublished ==
    \E r \in Requests :
        /\ pc[r] = "done" /\ status[r] = 200
        /\ Present(params[r], "tempf") /\ params[r]["tempf"] = Junk
        /\ ~Present(params[r], "windchillf")
        /\ Count(r, Path("humidity", "state")) = 1
        /\ Count(r, Path("relativePressure", "state")) = 1

(* C3: at most one request holds the client at a time, and in the log the  *)
(* messages of one request form one block: once another request's message  *)
(* follows, none of the first request's comes later.                       *)
C3_PublishesNotInterleaved ==
    /\ Cardinality({r \in Requests : pc[r] \in Running}) <= 1
    /\ \A r \in Requests : pc[r] \in Running <=> mutex.holder = r
    /\ \A j \in 1..(Len(log) - 1) :
          (log[j].req /= 0 /\ log[j + 1].req /= log[j].req) =>
              \A k \in (j + 1)..Len(log) : log[k].req /= log[j].req

W3_TwoBlocksOneWaiting ==
    \E r1, r2, r3 \in Requests :
        /\ r1 /= r2 /\ r2 /= r3 /\ r1 /= r3
        /\ pc[r1] = "done" /\ Cardinality(MsgIdx(r1)) >= 2
        /\ pc[r2] = "baromin" /\ Cardinality(MsgIdx(r2)) >= 2
        /\ pc[r3] = "lock"

(* C4: the messages of one request appear in the order of the field table, *)
(* the apparent temperature last; skipped fields leave the order of the    *)
(* others unchanged.                                                       *)
C4_FieldTableOrder ==
    LET rank == [i \in DOMAIN log |-> Rank(log[i].topic)]
    IN  \A r \in Requests :
            LET mine == MsgIdx(r)
            IN  \A i \in mine :
                    /\ rank[i] >= 1
                    /\ \A j \in mine : j <= i \/ rank[i] < rank[j]

W4_OrderedWithSkips ==
    \E r \in Requests :
        /\ pc[r] = "done" /\ status[r] = 200
        /\ Cardinality(MsgIdx(r)) = Len(TopicOrder) - 2
        /\ Count(r, Path("windChill", "state")) = 0
        /\ Count(r, Path("windSpeed", "state")) = 0
        /\ log[Len(log)].topic = Path("feelsLike", "state")

FeelsLike == Path("feelsLike", "state")

(* The number of fields of request p the field pipeline reports as missing *)
(* or unparseable.                                                         *)
FailedFields(p) == Cardinality({f \in FieldTable : ~Parses(p, f)})

(* C5 as stated: a returned request published the apparent temperature if  *)
(* and only if the field pipeline accepted both the temperature and the    *)
(* humidity field.                                                         *)
C5_Original ==
    \A r \in Requests :
        (pc[r] = "done" /\ status[r] = 200) =>
            (Count(r, FeelsLike) >= 1 <=>
                /\ Parses(params[r], <<"tempf", "temperature", "Decimal">>)
                /\ Parses(params[r], <<"humidity", "humidity", "Integer">>))

(* C5 amended: a returned request published the apparent temperature       *)
(* (once) if and only if tempf and humidity are both present and both      *)
(* parse as floating-point numbers; a humidity the pipeline rejects as no   *)
(* integer still counts.  Skipping it logs no error: the errors of the     *)
(* request are those of its failed fields.                                 *)
C5_FeelsLikeIffBothParseAsFloat ==
    \A r \in Requests :
        (pc[r] = "done" /\ status[r] = 200) =>
            /\ Count(r, FeelsLike) =
                  IF /\ Present(params[r], "tempf") /\ ParseFloat(params[r]["tempf"]).ok
                     /\ Present(params[r], "humidity") /\ ParseFloat(params[r]["humidity"]).ok
                  THEN 1 ELSE 0
            /\ Cardinality(ErrIdx(r)) = FailedFields(params[r])

W5_DecimalHumidityPublished ==
    \E r \in Requests :
        /\ pc[r] = "done" /\ status[r] = 200
        /\ Present(params[r], "humidity")
        /\ ~ParseI32(params[r]["humidity"]).ok
        /\ Count(r, Path("humidity", "state")) = 0
        /\ Count(r, FeelsLike) = 1

(* C6: the computed wind chill is only logged, and only when temperature   *)
(* and wind speed parse, windchillf is present, temperature <= 50 and wind *)
(* speed > 3.  A request sends at most one message to the windChill topic, *)
(* the reported value to one fractional digit, and every request that      *)
(* reaches the end answers 200.                                            *)
C6_ComputedWindChillNotPublished ==
    \A r \in Requests :
        /\ \A i \in DOMAIN diag : diag[i].req = r =>
              /\ Present(params[r], "tempf") /\ ParseFloat(params[r]["tempf"]).ok
              /\ Present(params[r], "windspeedmph")
              /\ ParseFloat(params[r]["windspeedmph"]).ok
              /\ Present(params[r], "windchillf")
              /\ Milli(ParseFloat(params[r]["tempf"])) <= 50000
              /\ Milli(ParseFloat(params[r]["windspeedmph"])) > 3000
              /\ pc[r] \in {"return", "done"}
        /\ Count(r, Path("windChill", "state")) <= 1
        /\ \A i \in MsgIdx(r) : log[i].topic = Path("windChill", "state") =>
              /\ Present(params[r], "windchillf")
              /\ ParseFloat(params[r]["windchillf"]).ok
              /\ log[i].payload =
                    FormatFixed(ParseFloat(params[r]["windchillf"]).neg,
                                ParseFloat(params[r]["windchillf"]).val, 3, 1)
        /\ (pc[r] = "done" /\ step[r] >= 1) => status[r] = 200

W6_ComputedAndReported ==
    \E r \in Requests :
        /\ pc[r] = "done" /\ status[r] = 200
        /\ \E i \in DOMAIN diag : diag[i].req = r /\ diag[i].temp_f = 50000
        /\ Count(r, Path("windChill", "state")) = 1

(* C7: the branch of the heat index.  T < 80: T itself.  Otherwise, with   *)
(* steadman = 0.5 * (T + 61 + (T - 68) * 1.2 + RH * 0.094):                *)
(* (T + steadman) / 2 < 80: steadman.  Otherwise the Rothfusz value, less  *)
(* the low-humidity term iff RH < 13 and 80 < T < 112, else plus the       *)
(* high-humidity term iff RH > 85 and 80 < T < 87, else unchanged.         *)
(* T and RH are in thousandths, results in 10^-4.                          *)
C7_HeatIndexBranches ==
    heat.out /= <<>> =>
        LET T == Milli(heat.temp_f)
            RH == Milli(heat.rh)
            o == heat.out[1]
            v == IF o.neg THEN -o.mag ELSE o.mag
            st2 == 1000 * T + 61000000 + 1200 * (T - 68000) + 94 * RH
        IN  IF T < 80000
            THEN o.branch = "temp_f" /\ o.band = "none" /\ v = 10 * T
            ELSE IF 2000 * T + st2 < 4 * 80000000
            THEN o.branch = "steadman" /\ o.band = "none" /\ v = st2 \div 200
            ELSE /\ o.branch = "rothfusz"
                 /\ o.band = IF RH < 13000 /\ 80000 < T /\ T < 112000 THEN "low"
                             ELSE IF RH > 85000 /\ 80000 < T /\ T < 87000 THEN "high"
                             ELSE "none"
                 /\ o.band = "low" =>
                       v = rothfusz(T, RH) - low_humidity_adjustment(T, RH)
                 /\ o.band = "high" =>
                       v = rothfusz(T, RH) + high_humidity_adjustment(T, RH)
                 /\ o.band = "none" => v = rothfusz(T, RH)
                 /\ (T = 90000 /\ RH = 50000) => o.band = "none"
                 /\ (T = 85000 /\ RH = 10000) => (o.band = "low" /\ v < rothfusz(T, RH))
                 /\ (T = 82000 /\ RH = 90000) => (o.band = "high" /\ v > rothfusz(T, RH))

W7_HighHumidityBand ==
    /\ heat.out /= <<>>
    /\ Milli(heat.temp_f) = 82000
    /\ Milli(heat.rh) = 90000
    /\ heat.out[1].band = "high"

(* C8: a request with valid credentials whose lock() fails answers 500 and *)
(* has published nothing; no field of it was parsed.  lock() fails exactly *)
(* when the mutex is poisoned, and no request runs on a poisoned mutex.    *)
C8_LockFailureAborts ==
    /\ mutex.poisoned => \A r \in Requests : pc[r] \notin Running
    /\ \A r \in Requests :
          status[r] = 500 =>
              /\ mutex.poisoned
              /\ CredentialsValid(params[r])
              /\ pc[r] = "done"
              /\ step[r] = 0
              /\ MsgIdx(r) = {}
              /\ \A i \in ErrIdx(r) : errors[i].what = "lock"
    /\ \A r \in Requests :
          (CredentialsValid(params[r]) /\ pc[r] = "done" /\ step[r] = 0) =>
              status[r] = 500

W8_ServerError ==
    \E r1, r2 \in Requests :
        /\ pc[r1] = "panicked" /\ MsgIdx(r1) /= {}
        /\ pc[r2] = "done" /\ status[r2] = 500

(* C9: a message of a request handler goes to                              *)
(* <namespace>/sensor/<stationId>/<suffix>/state and is not retained; a    *)
(* message of startup goes to .../<suffix>/config and is retained.         *)
C9_TopicsAndRetention ==
    \A i \in DOMAIN log :
        /\ Len(log[i].topic) = 5
        /\ log[i].topic[1] = "homeassistant"
        /\ log[i].topic[2] = "sensor"
        /\ log[i].topic[3] = "ambientWeather"
        /\ log[i].req /= 0 => (log[i].topic[5] = "state" /\ ~log[i].retained)
        /\ log[i].req = 0 => (log[i].topic[5] = "config" /\ log[i].retained)
        /\ log[i].topic[5] = "state" => ~log[i].retained
        /\ log[i].topic[5] = "config" => log[i].retained

W9_BothKinds ==
    \E i, j \in DOMAIN log :
        /\ log[i].topic = Path("relativePressure", "config") /\ log[i].retained
        /\ log[j].topic = Path("relativePressure", "state") /\ ~log[j].retained

(* C10: the descriptors are published once, at startup, before any request *)
(* is handled: one per field of the table and one for the apparent         *)
(* temperature.  No descriptor follows a state message, and every state    *)
(* message has a descriptor, hence an earlier one, whose state_topic is    *)
(* its topic.                                                              *)
C10_DescriptorsFirst ==
    LET descriptors == {i \in DOMAIN log : log[i].req = 0}
        described == {log[i].payload.state_topic : i \in descriptors}
        suffixes == {f[2] : f \in FieldTable} \cup {"feelsLike"}
    IN  /\ \A i \in descriptors :
              /\ log[i].topic[4] \in suffixes
              /\ log[i].topic = Path(log[i].topic[4], "config")
              /\ log[i].payload.state_topic = Path(log[i].topic[4], "state")
        /\ Cardinality({log[i].topic : i \in descriptors}) = Cardinality(descriptors)
        /\ \A j \in 1..(Len(log) - 1) : log[j].req /= 0 => log[j + 1].req /= 0
        /\ (\E r \in Requests : pc[r] /= "idle") =>
              {log[i].topic[4] : i \in descriptors} = suffixes
        /\ \A j \in DOMAIN log : log[j].req /= 0 => log[j].topic \in described

W10_StateAfterDescriptors ==
    /\ mainPc = "serve"
    /\ \E j \in DOMAIN log : log[j].req /= 0 /\ log[j].topic = FeelsLike

====
